---- MODULE Spec2Model ----
(***************************************************************************)
(* Model of dedraPL/serializer: the member registry (MemberStorage.h) with *)
(* its std::call_once latch, and the per-field JSON helpers of             *)
(* Serializer.h.                                                           *)
(*                                                                         *)
(* One registry partition is modelled: the static `storage` of             *)
(* MemberStorage<Serializer<C>, std::string>, together with the            *)
(* once_flag of callInitMembers<C>.  Class C derives from Base, so the     *)
(* partition holds member pointers of both classes.                        *)
(***************************************************************************)
EXTENDS Integers, Sequences, FiniteSets, TLC

\* ---------------------------------------------------------------- bounds
\* number of threads that construct instances and call the public API
NumThreads == 2
\* number of Member_t key objects the heap can hold (one `new` per
\* registerMember call, never freed)
MaxAddr == 4
\* number of times InitMembers may be entered before the model stops
\* counting (the code itself has no such limit)
MaxRuns == 2

Threads == 1..NumThreads

\* ------------------------------------------------------- data members
\* A pointer to data member: the class it is declared in, its offset in
\* that class, and its declared type.  X and V belong to C; P is declared
\* in Base and sits at the same offset in Base as X does in C.
X == [cls |-> "C", off |-> 1, ty |-> "int"]
V == [cls |-> "C", off |-> 2, ty |-> "variant"]
P == [cls |-> "Base", off |-> 1, ty |-> "shared_ptr"]

Members == {X, V, P}

\* SERIALIZER_ADD_MEMBER(Class, Member) registers #Member as the key.
MemberName(m) ==
    IF m = X THEN "x" ELSE IF m = V THEN "v" ELSE "p"

Names == {MemberName(m) : m \in Members}

\* typeid(_ClassType).hash_code()
ClassHash(c) ==
    IF c = "C" THEN 1 ELSE 2

\* new Member_t(arg): the key object, living at address a
Member_t(m, a) ==
    [addr |-> a, class_hash |-> ClassHash(m.cls), member |-> m.off, ty |-> m.ty]

\* (mutation of isEqual: the class hash is not compared)
isEqualNoClass(k, rhs) == rhs.member = k.member

\* Member_t::isEqual: equal class hash, then the member pointers compared
\* through a static_cast that ignores the stored member type
isEqual(k, rhs) ==
    IF k.class_hash = rhs.class_hash THEN rhs.member = k.member ELSE FALSE

\* MemberHasher: the address of the key object
MemberHasher(k) == k.addr

\* MemberEqual
MemberEqual(k1, k2) == isEqual(k1, k2)

\* ------------------------------------------------------------- state
VARIABLES
    storage,        \* the unordered_map, as its iteration order: a sequence
                    \* of [key, value]
    nextAddr,       \* next free heap address for a key object
    register_once,  \* the once_flag: "none", "running" or "done"
    decl,           \* the body of C::InitMembers: the members it registers
    pc,             \* per thread: "idle", "init", "blocked", "constructed"
    ip,             \* per thread: position inside InitMembers
    waited,         \* per thread: its current construction blocked in
                    \* call_once before returning
    initRuns,       \* how many times InitMembers has been entered
    calls,          \* every <<member, value>> passed to registerMember
    obs             \* the outcome of the public call that has just been
                    \* made, until its caller takes it (NoObs otherwise)

vars == <<storage, nextAddr, register_once, decl, pc, ip, waited, initRuns,
          calls, obs>>

NoObs == [op |-> "none"]

\* The InitMembers bodies considered: each registers its members once, in
\* order; some leave members out (those are then "never registered").
InitBodies == {<<X, V, P>>, <<V, X>>, <<P>>}

Init ==
    /\ storage = <<>>
    /\ nextAddr = 1
    /\ register_once = "none"
    /\ decl \in InitBodies
    /\ pc = [t \in Threads |-> "idle"]
    /\ ip = [t \in Threads |-> 0]
    /\ waited = [t \in Threads |-> FALSE]
    /\ initRuns = 0
    /\ calls = {}
    /\ obs = NoObs

\* ------------------------------------------------------- the registry
\* (mutation of GetMatches: the class hash is not compared)
GetMatchesAnyClass(st, arg) ==
    {i \in 1..Len(st) : st[i].key.member = arg.off}

\* positions of the entries whose key matches member pointer arg, under
\* the predicate of get's find_if
GetMatches(st, arg) ==
    {i \in 1..Len(st) :
        IF st[i].key.class_hash = ClassHash(arg.cls)
        THEN st[i].key.member = arg.off
        ELSE FALSE}

Min(S) == CHOOSE i \in S : \A j \in S : i <= j

\* MemberStorage::get: the first match in iteration order, or the
\* runtime_error "No storage for ..."
get(st, arg) ==
    IF GetMatches(st, arg) # {}
    THEN [found |-> TRUE, value |-> st[Min(GetMatches(st, arg))].value]
    ELSE [found |-> FALSE, value |-> "runtime_error"]

\* positions of the entries operator[] can compare the new key with and
\* find equal
EqualEntries(st, k) == {i \in 1..Len(st) : MemberEqual(st[i].key, k)}

\* storage[new Member_t(arg)] = value.  The hash of the new key is its
\* address, so it differs from the hash of every key already stored.  An
\* equal key is found only if it shares the new key's bucket and the
\* implementation compares keys without comparing cached hashes first;
\* `collide` says whether that happened.  A key that is not found is
\* inserted, and lands before or after the existing entries in iteration
\* order (`front`).
MapAssign(st, k, value, collide, front) ==
    IF collide /\ EqualEntries(st, k) # {}
    THEN [st EXCEPT ![Min(EqualEntries(st, k))].value = value]
    ELSE IF front
         THEN <<[key |-> k, value |-> value]>> \o st
         ELSE Append(st, [key |-> k, value |-> value])

\* MemberStorage::registerMember: the new table and the returned bool
registerMember(st, arg, value, a, collide, front) ==
    [storage |-> MapAssign(st, Member_t(arg, a), value, collide, front),
     ret |-> TRUE]

\* the outcomes of one insertion that a later get can tell apart: where a
\* key equal to arg is already stored, whether operator[] finds it, and
\* whether a new entry precedes it in iteration order.  The place of a new
\* entry among keys it is not equal to is not observable through find_if,
\* and such an entry is appended.
MapOutcomes(st, arg) ==
    IF GetMatches(st, arg) # {}
    THEN {<<TRUE, FALSE>>, <<FALSE, TRUE>>, <<FALSE, FALSE>>}
    ELSE {<<FALSE, FALSE>>}

\* the step of registerMember on the state
DoRegister(arg, value) ==
    /\ nextAddr <= MaxAddr
    /\ \E o \in MapOutcomes(storage, arg) :
         storage' = registerMember(storage, arg, value, nextAddr,
                                   o[1], o[2]).storage
    /\ nextAddr' = nextAddr + 1
    /\ calls' = calls \cup {<<arg, value>>}

\* ------------------------------------------------ one-time initialization
\* (mutation of CallOnceEnter: a set flag does not stop the callable from
\* being run again)
CallOnceEnterRerun(flag) ==
    IF flag = "running" THEN "wait" ELSE "run"

\* (mutation of CallOnceEnter: a caller that finds the callable running
\* returns instead of waiting for it)
CallOnceEnterNoWait(flag) ==
    IF flag = "none" THEN "run" ELSE "return"

\* std::call_once on entry: what the calling thread does for each state of
\* the flag
CallOnceEnter(flag) ==
    IF flag = "none" THEN "run" ELSE IF flag = "running" THEN "wait" ELSE "return"

\* callInitMembers, called from the constructor of C
CallInitMembers(t) ==
    /\ pc[t] = "idle"
    /\ LET what == CallOnceEnter(register_once) IN
         /\ what = "run" => initRuns < MaxRuns
         /\ pc' = [pc EXCEPT ![t] =
                      IF what = "run" THEN "init"
                      ELSE IF what = "wait" THEN "blocked" ELSE "constructed"]
         /\ register_once' = IF what = "run" THEN "running" ELSE register_once
         /\ ip' = [ip EXCEPT ![t] = IF what = "run" THEN 1 ELSE 0]
         /\ initRuns' = IF what = "run" THEN initRuns + 1 ELSE initRuns
         /\ waited' = [waited EXCEPT ![t] = (what = "wait")]
    /\ UNCHANGED <<storage, nextAddr, decl, calls, obs>>

\* one SERIALIZER_ADD_MEMBER line of InitMembers
InitMembersStep(t) ==
    /\ pc[t] = "init"
    /\ ip[t] <= Len(decl)
    /\ DoRegister(decl[ip[t]], MemberName(decl[ip[t]]))
    /\ ip' = [ip EXCEPT ![t] = ip[t] + 1]
    /\ UNCHANGED <<register_once, decl, pc, waited, initRuns, obs>>

\* (mutation of InitMembersReturn: the flag is left as it is when the
\* callable returns)
InitMembersReturnNoSet(t) ==
    /\ pc[t] = "init"
    /\ ip[t] > Len(decl)
    /\ pc' = [pc EXCEPT ![t] = "constructed"]
    /\ ip' = [ip EXCEPT ![t] = 0]
    /\ UNCHANGED <<storage, nextAddr, register_once, decl, waited, initRuns,
                   calls, obs>>

\* InitMembers returns: call_once sets the flag and returns
InitMembersReturn(t) ==
    /\ pc[t] = "init"
    /\ ip[t] > Len(decl)
    /\ register_once' = "done"
    /\ pc' = [pc EXCEPT ![t] = "constructed"]
    /\ ip' = [ip EXCEPT ![t] = 0]
    /\ UNCHANGED <<storage, nextAddr, decl, waited, initRuns, calls, obs>>

\* a thread waiting in call_once is released once the flag is set
CallOnceWake(t) ==
    /\ pc[t] = "blocked"
    /\ CallOnceEnter(register_once) = "return"
    /\ pc' = [pc EXCEPT ![t] = "constructed"]
    /\ UNCHANGED <<storage, nextAddr, register_once, decl, ip, waited, initRuns,
                   calls, obs>>

\* the instance goes away; the thread may construct another one
Destroy(t) ==
    /\ pc[t] = "constructed"
    /\ pc' = [pc EXCEPT ![t] = "idle"]
    /\ waited' = [waited EXCEPT ![t] = FALSE]
    /\ UNCHANGED <<storage, nextAddr, register_once, decl, ip, initRuns, calls, obs>>

\* the members registerMember has been called for so far
RegisteredSoFar == {c[1] : c \in calls}

DeclSet == {decl[i] : i \in 1..Len(decl)}

\* the public static get, callable at any time by any thread that is not
\* inside callInitMembers; it takes no part in the latch
Get(t, m) ==
    /\ pc[t] \in {"idle", "constructed"}
    /\ obs = NoObs
    /\ obs' = [op |-> "get", m |-> m,
               found |-> get(storage, m).found,
               value |-> get(storage, m).value,
               raised |-> ~get(storage, m).found,
               flag |-> register_once,
               regd |-> RegisteredSoFar]
    /\ UNCHANGED <<storage, nextAddr, register_once, decl, pc, ip, waited,
                   initRuns, calls>>

\* ------------------------------------------------- values and documents
\* native values carry their C++ type
IntVal(n) == [ty |-> "int", val |-> n]
StrVal(s) == [ty |-> "string", val |-> s]
\* an empty std::shared_ptr
NullPtr == [ty |-> "null", val |-> 0]

\* nlohmann::json values
JNum(n) == [t |-> "number", v |-> n]
JStr(s) == [t |-> "string", v |-> s]
JNull == [t |-> "null", v |-> 0]
JGarbage == [t |-> "number", v |-> -1]

\* instances of C: x is an int, v a std::variant<int, std::string> (the
\* record is its active alternative), p a std::shared_ptr<int> (the record
\* is its pointee, or NullPtr)
Instances ==
    {[m \in Members |-> IF m = X THEN IntVal(1) ELSE IF m = V THEN v ELSE p] :
        v \in {IntVal(3), StrVal("s")}, p \in {NullPtr, IntVal(4)}}

\* the documents handed to the helpers: JSON objects with at most one key
EmptyDoc == [k \in {} |-> JNull]
Docs ==
    {EmptyDoc} \cup
    {[k \in {n} |-> j] : n \in Names, j \in {JNum(7), JStr("t")}}

\* the (member, _TargetType) pairs that compile: _TargetType is the member
\* type, an alternative of the variant, or the pointee type
FieldCalls == {<<X, "int">>, <<V, "int">>, <<V, "string">>, <<P, "int">>}

\* ------------------------------------------------------------ Serializer
\* Serializer::getMemberRef: the storage location the field resolves to.
\* std::get<_TargetType> throws when another alternative is active;
\* *(instance.*arg).get() on an empty shared_ptr is undefined behaviour.
getMemberRef(arg, tgt, inst) ==
    IF arg.ty = "variant"
    THEN IF inst[arg].ty = tgt
         THEN [st |-> "ok", ref |-> inst[arg]]
         ELSE [st |-> "bad_variant_access", ref |-> inst[arg]]
    ELSE IF arg.ty = "shared_ptr"
         THEN IF inst[arg] = NullPtr
              THEN [st |-> "null_deref", ref |-> NullPtr]
              ELSE [st |-> "ok", ref |-> inst[arg]]
         ELSE [st |-> "ok", ref |-> inst[arg]]

\* (mutation of handleException: the commented-out throw is active, so the
\* exception leaves the helper)
handleExceptionRethrow(e) == [raised |-> TRUE, err |-> e]

\* Serializer::handleException: the throw is commented out, so the
\* exception is dropped (printed in DEBUG builds) and the helper returns
handleException(e) == [raised |-> FALSE, err |-> e]

\* nlohmann's to_json for int and std::string
ToJson(x) == IF x.ty = "int" THEN JNum(x.val) ELSE JStr(x.val)

\* nlohmann's from_json into a reference of type tgt: a type_error unless
\* the JSON value has the matching type, thrown before anything is assigned
FromJsonOk(j, tgt) ==
    IF tgt = "int" THEN j.t = "number" ELSE j.t = "string"

FromJson(j, tgt) ==
    IF tgt = "int" THEN IntVal(j.v) ELSE StrVal(j.v)

\* (mutation of DocSet: the assignment replaces the whole object)
DocSetOnly(doc, name, j) == [k \in {name} |-> j]

\* target[name] = value on a JSON object: the key is created or overwritten
DocSet(doc, name, j) ==
    [k \in DOMAIN doc \cup {name} |-> IF k = name THEN j ELSE doc[k]]

\* (mutation of to_json_simple: target[name] is evaluated before the right
\* operand, so the key exists, holding null, when getMemberRef throws)
to_json_simple_LeftFirst(st, doc, arg, tgt, inst, ub) ==
    IF ~get(st, arg).found
    THEN [doc |-> doc, crashed |-> FALSE] @@ handleException("runtime_error")
    ELSE IF getMemberRef(arg, tgt, inst).st = "bad_variant_access"
    THEN [doc |-> IF get(st, arg).value \in DOMAIN doc
                  THEN doc
                  ELSE DocSet(doc, get(st, arg).value, JNull),
          crashed |-> FALSE] @@ handleException("bad_variant_access")
    ELSE IF getMemberRef(arg, tgt, inst).st = "null_deref"
    THEN IF ub = "crash"
         THEN [doc |-> doc, crashed |-> TRUE, raised |-> FALSE, err |-> "none"]
         ELSE [doc |-> DocSet(doc, get(st, arg).value, JGarbage),
               crashed |-> FALSE, raised |-> FALSE, err |-> "none"]
    ELSE [doc |-> DocSet(doc, get(st, arg).value,
                         ToJson(getMemberRef(arg, tgt, inst).ref)),
          crashed |-> FALSE, raised |-> FALSE, err |-> "none"]

\* Serializer::to_json_simple (static form).  In
\*     target[name] = getMemberRef<_TargetType>(arg, instance);
\* the right operand is evaluated before target[name] (C++17), so a throw
\* in getMemberRef leaves the document without the key.  `ub` picks the
\* outcome of dereferencing an empty shared_ptr.
to_json_simple(st, doc, arg, tgt, inst, ub) ==
    IF ~get(st, arg).found
    THEN [doc |-> doc, crashed |-> FALSE] @@ handleException("runtime_error")
    ELSE IF getMemberRef(arg, tgt, inst).st = "bad_variant_access"
    THEN [doc |-> doc, crashed |-> FALSE] @@ handleException("bad_variant_access")
    ELSE IF getMemberRef(arg, tgt, inst).st = "null_deref"
    THEN IF ub = "crash"
         THEN [doc |-> doc, crashed |-> TRUE, raised |-> FALSE, err |-> "none"]
         ELSE [doc |-> DocSet(doc, get(st, arg).value, JGarbage),
               crashed |-> FALSE, raised |-> FALSE, err |-> "none"]
    ELSE [doc |-> DocSet(doc, get(st, arg).value,
                         ToJson(getMemberRef(arg, tgt, inst).ref)),
          crashed |-> FALSE, raised |-> FALSE, err |-> "none"]

\* Serializer::from_json_simple (static form):
\*     source.at(name).get_to(getMemberRef<_TargetType>(arg, instance));
\* at() throws out_of_range for a missing key, get_to a type_error for a
\* value of the wrong type.  Writing through an empty shared_ptr is
\* undefined behaviour: the process dies, or the write lands elsewhere.
from_json_simple(st, source, arg, tgt, inst, ub) ==
    IF ~get(st, arg).found
    THEN [inst |-> inst, crashed |-> FALSE] @@ handleException("runtime_error")
    ELSE IF get(st, arg).value \notin DOMAIN source
    THEN [inst |-> inst, crashed |-> FALSE] @@ handleException("out_of_range")
    ELSE IF getMemberRef(arg, tgt, inst).st = "bad_variant_access"
    THEN [inst |-> inst, crashed |-> FALSE] @@ handleException("bad_variant_access")
    ELSE IF getMemberRef(arg, tgt, inst).st = "null_deref"
    THEN [inst |-> inst, crashed |-> (ub = "crash"), raised |-> FALSE,
          err |-> "none"]
    ELSE IF ~FromJsonOk(source[get(st, arg).value], tgt)
    THEN [inst |-> inst, crashed |-> FALSE] @@ handleException("type_error")
    ELSE [inst |-> [inst EXCEPT ![arg] =
                       FromJson(source[get(st, arg).value], tgt)],
          crashed |-> FALSE, raised |-> FALSE, err |-> "none"]

UBOutcomes == {"crash", "garbage"}

\* writeField: a thread holding an instance serializes one field of it
WriteField(t, m, tgt, inst, doc) ==
    /\ pc[t] = "constructed"
    /\ obs = NoObs
    /\ \E ub \in UBOutcomes :
         obs' = [op |-> "write", m |-> m, tgt |-> tgt,
                 inst |-> inst, doc |-> doc,
                 found |-> get(storage, m).found,
                 raised |-> to_json_simple(storage, doc, m, tgt, inst, ub).raised,
                 out |-> to_json_simple(storage, doc, m, tgt, inst, ub)]
    /\ UNCHANGED <<storage, nextAddr, register_once, decl, pc, ip, waited,
                   initRuns, calls>>

\* readField: a thread holding an instance deserializes one field into it
ReadField(t, m, tgt, inst, doc) ==
    /\ pc[t] = "constructed"
    /\ obs = NoObs
    /\ \E ub \in UBOutcomes :
         obs' = [op |-> "read", m |-> m, tgt |-> tgt,
                 inst |-> inst, doc |-> doc,
                 found |-> get(storage, m).found,
                 raised |-> from_json_simple(storage, doc, m, tgt, inst, ub).raised,
                 out |-> from_json_simple(storage, doc, m, tgt, inst, ub)]
    /\ UNCHANGED <<storage, nextAddr, register_once, decl, pc, ip, waited,
                   initRuns, calls>>

\* ------------------------------------------------- nested fragments
\* a compound document produced elsewhere, opaque to the helpers
JObj == [t |-> "object", v |-> 1]

Fragments == {JObj, JStr("t")}

NestedDocs ==
    {EmptyDoc} \cup {[k \in {n} |-> j] : n \in Names, j \in Fragments}

\* (mutation of get_json_for_property: no try/catch around the lookup)
get_json_for_property_NoCatch(st, source, arg) ==
    IF ~get(st, arg).found
    THEN [ret |-> JNull, raised |-> TRUE, err |-> "runtime_error"]
    ELSE IF get(st, arg).value \notin DOMAIN source
    THEN [ret |-> JNull, raised |-> TRUE, err |-> "out_of_range"]
    ELSE [ret |-> source[get(st, arg).value], raised |-> FALSE, err |-> "none"]

\* Serializer::get_json_for_property: source.at(name), or a null document
\* when get or at() throws
get_json_for_property(st, source, arg) ==
    IF ~get(st, arg).found
    THEN [ret |-> JNull] @@ handleException("runtime_error")
    ELSE IF get(st, arg).value \notin DOMAIN source
    THEN [ret |-> JNull] @@ handleException("out_of_range")
    ELSE [ret |-> source[get(st, arg).value], raised |-> FALSE, err |-> "none"]

\* Serializer::add_json_to_property: target[name] = source, skipped when
\* get throws
add_json_to_property(st, target, arg, source) ==
    IF ~get(st, arg).found
    THEN [doc |-> target] @@ handleException("runtime_error")
    ELSE [doc |-> DocSet(target, get(st, arg).value, source),
          raised |-> FALSE, err |-> "none"]

\* readNested
ReadNested(t, m, doc) ==
    /\ pc[t] = "constructed"
    /\ obs = NoObs
    /\ obs' = [op |-> "readNested", m |-> m, doc |-> doc,
               found |-> get(storage, m).found,
               out |-> get_json_for_property(storage, doc, m)]
    /\ UNCHANGED <<storage, nextAddr, register_once, decl, pc, ip, waited,
                   initRuns, calls>>

\* writeNested
WriteNested(t, m, frag, doc) ==
    /\ pc[t] = "constructed"
    /\ obs = NoObs
    /\ obs' = [op |-> "writeNested", m |-> m, frag |-> frag, doc |-> doc,
               found |-> get(storage, m).found,
               out |-> add_json_to_property(storage, doc, m, frag)]
    /\ UNCHANGED <<storage, nextAddr, register_once, decl, pc, ip, waited,
                   initRuns, calls>>

\* ------------------------------------------- toDocument / fromDocument
\* The derived class implements to_json / from_json by calling the helpers
\* for its fields in turn; for the variant it calls the helper once per
\* alternative.  The order is the class author's.
FieldOrders ==
    {<<<<X, "int">>, <<V, "int">>, <<V, "string">>, <<P, "int">>>>,
     <<<<P, "int">>, <<V, "string">>, <<V, "int">>, <<X, "int">>>>}

\* a freshly default-constructed C: x is 0, v holds its first alternative,
\* and p is either empty (std::shared_ptr's default) or allocated by the
\* constructor of C
DefaultInstances ==
    {[m \in Members |-> IF m = P THEN p ELSE IntVal(0)] :
        p \in {NullPtr, IntVal(0)}}

\* documents with any subset of the registered keys
FullDocs ==
    UNION {[S -> {JNum(7), JStr("t")}] : S \in SUBSET Names}

\* to_json of the derived class from field i on: an exception that leaves
\* a helper, or the death of the process, ends it
RECURSIVE toDocument(_, _, _, _, _, _)
toDocument(st, order, i, acc, inst, ub) ==
    IF i > Len(order) \/ acc.crashed \/ acc.raised
    THEN acc
    ELSE toDocument(st, order, i + 1,
            [doc |-> to_json_simple(st, acc.doc, order[i][1], order[i][2],
                                    inst, ub).doc,
             crashed |-> to_json_simple(st, acc.doc, order[i][1], order[i][2],
                                        inst, ub).crashed,
             raised |-> to_json_simple(st, acc.doc, order[i][1], order[i][2],
                                       inst, ub).raised,
             errs |-> Append(acc.errs,
                        to_json_simple(st, acc.doc, order[i][1], order[i][2],
                                       inst, ub).err)],
            inst, ub)

\* from_json of the derived class from field i on
RECURSIVE fromDocument(_, _, _, _, _, _)
fromDocument(st, order, i, acc, source, ub) ==
    IF i > Len(order) \/ acc.crashed \/ acc.raised
    THEN acc
    ELSE fromDocument(st, order, i + 1,
            [inst |-> from_json_simple(st, source, order[i][1], order[i][2],
                                       acc.inst, ub).inst,
             crashed |-> from_json_simple(st, source, order[i][1], order[i][2],
                                          acc.inst, ub).crashed,
             raised |-> from_json_simple(st, source, order[i][1], order[i][2],
                                         acc.inst, ub).raised,
             errs |-> Append(acc.errs,
                        from_json_simple(st, source, order[i][1], order[i][2],
                                         acc.inst, ub).err)],
            source, ub)

\* nlohmann calls to_json(j, p) with a fresh document
StartDoc == [doc |-> EmptyDoc, crashed |-> FALSE, raised |-> FALSE, errs |-> <<>>]

StartInst(inst) ==
    [inst |-> inst, crashed |-> FALSE, raised |-> FALSE, errs |-> <<>>]

\* json j = instance
ToDocument(t, order, inst) ==
    /\ pc[t] = "constructed"
    /\ obs = NoObs
    /\ \E ub \in UBOutcomes :
         obs' = [op |-> "toDocument", order |-> order, inst |-> inst,
                 doc |-> EmptyDoc, st |-> storage, ub |-> ub,
                 out |-> toDocument(storage, order, 1, StartDoc, inst, ub)]
    /\ UNCHANGED <<storage, nextAddr, register_once, decl, pc, ip, waited,
                   initRuns, calls>>

\* j.get_to(instance)
FromDocument(t, order, inst, doc) ==
    /\ pc[t] = "constructed"
    /\ obs = NoObs
    /\ \E ub \in UBOutcomes :
         obs' = [op |-> "fromDocument", order |-> order, inst |-> inst,
                 doc |-> doc, st |-> storage, ub |-> ub,
                 out |-> fromDocument(storage, order, 1, StartInst(inst),
                                      doc, ub)]
    /\ UNCHANGED <<storage, nextAddr, register_once, decl, pc, ip, waited,
                   initRuns, calls>>

\* json j = x; C y; j.get_to(y)
RoundTrip(t, order, x, dflt) ==
    /\ pc[t] = "constructed"
    /\ obs = NoObs
    /\ \E ub \in UBOutcomes :
         obs' = [op |-> "roundtrip", order |-> order, inst |-> x,
                 dflt |-> dflt,
                 allreg |-> \A m \in Members : get(storage, m).found,
                 mid |-> toDocument(storage, order, 1, StartDoc, x, ub),
                 out |-> fromDocument(storage, order, 1, StartInst(dflt),
                           toDocument(storage, order, 1, StartDoc, x, ub).doc,
                           ub)]
    /\ UNCHANGED <<storage, nextAddr, register_once, decl, pc, ip, waited,
                   initRuns, calls>>

\* the caller takes the outcome of its call and goes on
Return ==
    /\ obs # NoObs
    /\ obs' = NoObs
    /\ UNCHANGED <<storage, nextAddr, register_once, decl, pc, ip, waited,
                   initRuns, calls>>

Next ==
    \/ \E t \in Threads : CallInitMembers(t)
    \/ \E t \in Threads : InitMembersStep(t)
    \/ \E t \in Threads : InitMembersReturn(t)
    \/ \E t \in Threads : CallOnceWake(t)
    \/ \E t \in Threads : Destroy(t)
    \/ \E t \in Threads, m \in Members : Get(t, m)
    \/ \E t \in Threads, c \in FieldCalls, inst \in Instances, doc \in Docs :
         WriteField(t, c[1], c[2], inst, doc)
    \/ \E t \in Threads, c \in FieldCalls, inst \in Instances, doc \in Docs :
         ReadField(t, c[1], c[2], inst, doc)
    \/ \E t \in Threads, m \in Members, doc \in NestedDocs :
         ReadNested(t, m, doc)
    \/ \E t \in Threads, m \in Members, frag \in Fragments, doc \in NestedDocs :
         WriteNested(t, m, frag, doc)
    \/ \E t \in Threads, order \in FieldOrders, inst \in Instances :
         ToDocument(t, order, inst)
    \/ \E t \in Threads, order \in FieldOrders, doc \in FullDocs,
          inst \in Instances \cup DefaultInstances :
         FromDocument(t, order, inst, doc)
    \/ \E t \in Threads, order \in FieldOrders, x \in Instances,
          dflt \in DefaultInstances :
         RoundTrip(t, order, x, dflt)
    \/ Return

Spec == Init /\ [][Next]_vars

\* a derived class calls the protected registerMember directly, outside
\* InitMembers and possibly for a member that is already registered
RegisterMemberCall(t, m, value) ==
    /\ pc[t] = "constructed"
    /\ obs = NoObs
    /\ nextAddr <= MaxAddr
    /\ nextAddr' = nextAddr + 1
    /\ calls' = calls \cup {<<m, value>>}
    /\ \E o \in MapOutcomes(storage, m) :
         /\ storage' = registerMember(storage, m, value, nextAddr,
                                      o[1], o[2]).storage
         /\ obs' = [op |-> "register", m |-> m, value |-> value,
                    before |-> storage,
                    after |-> registerMember(storage, m, value, nextAddr,
                                             o[1], o[2]).storage,
                    ret |-> registerMember(storage, m, value, nextAddr,
                                           o[1], o[2]).ret]
    /\ UNCHANGED <<register_once, decl, pc, ip, waited, initRuns>>

\* the container applies its hasher and its key-equality to two stored keys
CompareKeys(t, i, j) ==
    /\ pc[t] = "constructed"
    /\ obs = NoObs
    /\ obs' = [op |-> "compare", k1 |-> storage[i].key, k2 |-> storage[j].key,
               equal |-> MemberEqual(storage[i].key, storage[j].key),
               h1 |-> MemberHasher(storage[i].key),
               h2 |-> MemberHasher(storage[j].key)]
    /\ UNCHANGED <<storage, nextAddr, register_once, decl, pc, ip, waited,
                   initRuns, calls>>

NextReg ==
    \/ \E t \in Threads : CallInitMembers(t)
    \/ \E t \in Threads : InitMembersStep(t)
    \/ \E t \in Threads : InitMembersReturn(t)
    \/ \E t \in Threads : CallOnceWake(t)
    \/ \E t \in Threads : Destroy(t)
    \/ \E t \in Threads, m \in Members : Get(t, m)
    \/ \E t \in Threads, m \in Members :
         \E value \in {"alt"} : RegisterMemberCall(t, m, value)
    \/ \E t \in Threads, i \in 1..Len(storage), j \in 1..Len(storage) :
         CompareKeys(t, i, j)
    \/ Return

SpecReg == Init /\ [][NextReg]_vars

\* InitMembers throws: the allocation of the next key object fails with
\* std::bad_alloc (or the derived class's InitMembers throws on its own).
\* call_once lets the exception through to the constructor's caller and
\* leaves the flag unset; the entries registered so far stay.
InitMembersThrow(t) ==
    /\ pc[t] = "init"
    /\ ip[t] <= Len(decl)
    /\ register_once' = "none"
    /\ pc' = [pc EXCEPT ![t] = "idle"]
    /\ ip' = [ip EXCEPT ![t] = 0]
    /\ UNCHANGED <<storage, nextAddr, decl, waited, initRuns, calls, obs>>

\* after an exceptional call, a thread waiting in call_once runs the
\* callable itself
CallOnceTakeOver(t) ==
    /\ pc[t] = "blocked"
    /\ CallOnceEnter(register_once) = "run"
    /\ initRuns < MaxRuns
    /\ register_once' = "running"
    /\ pc' = [pc EXCEPT ![t] = "init"]
    /\ ip' = [ip EXCEPT ![t] = 1]
    /\ initRuns' = initRuns + 1
    /\ UNCHANGED <<storage, nextAddr, decl, waited, calls, obs>>

NextThrow ==
    \/ \E t \in Threads : CallInitMembers(t)
    \/ \E t \in Threads : InitMembersStep(t)
    \/ \E t \in Threads : InitMembersReturn(t)
    \/ \E t \in Threads : InitMembersThrow(t)
    \/ \E t \in Threads : CallOnceWake(t)
    \/ \E t \in Threads : CallOnceTakeOver(t)
    \/ \E t \in Threads : Destroy(t)
    \/ \E t \in Threads, m \in Members : Get(t, m)
    \/ Return

SpecThrow == Init /\ [][NextThrow]_vars

\* Constructors under a fair scheduler: a thread that runs InitMembers
\* keeps running until it has returned, and a thread that call_once can
\* release is released.  InitMembers does not throw.
NextLive ==
    \/ \E t \in Threads : CallInitMembers(t)
    \/ \E t \in Threads : InitMembersStep(t)
    \/ \E t \in Threads : InitMembersReturn(t)
    \/ \E t \in Threads : CallOnceWake(t)
    \/ \E t \in Threads : Destroy(t)
    \/ \E t \in Threads, m \in Members : Get(t, m)
    \/ Return

Fairness ==
    \A t \in Threads :
        /\ WF_vars(InitMembersStep(t))
        /\ WF_vars(InitMembersReturn(t))
        /\ WF_vars(CallOnceWake(t))

SpecLive == Init /\ [][NextLive]_vars /\ Fairness

\* ================================================================ claims
\* positions of the entries of st whose key denotes member m
KeysFor(st, m) ==
    {i \in 1..Len(st) : st[i].key = Member_t(m, st[i].key.addr)}

\* C1: InitMembers is entered at most once, and once the latch is set it
\* has been entered exactly once and the partition holds exactly one entry
\* for each member InitMembers declares and no other entry, however many
\* constructions have called callInitMembers; a construction has returned
\* only if the latch is set.
InitOnceOneEntryPerMember ==
    /\ initRuns <= 1
    /\ register_once = "done" =>
         /\ initRuns = 1
         /\ Len(storage) = Cardinality(DeclSet)
         /\ \A m \in Members :
              Cardinality(KeysFor(storage, m)) = IF m \in DeclSet THEN 1 ELSE 0
    /\ \A t \in Threads : pc[t] = "constructed" => register_once = "done"

\* every thread holds an instance of the class whose InitMembers declares
\* three members
WitnessAllConstructed ==
    /\ Len(decl) = 3
    /\ \A t \in Threads : pc[t] = "constructed"
    /\ register_once = "done"

\* C2 (as claimed): a lookup made while InitMembers is running finds a
\* declared member only if all declared members are registered, and misses
\* a declared member only if none is.
AllOrNothingVisibility ==
    (obs.op = "get" /\ obs.flag = "running") =>
        /\ obs.found => DeclSet \subseteq obs.regd
        /\ (~obs.found /\ obs.m \in DeclSet) => obs.regd \cap DeclSet = {}

\* C3: at most one thread is inside InitMembers, InitMembers is never
\* entered a second time, and a thread that has returned from
\* callInitMembers finds the latch set, no thread inside InitMembers and an
\* entry for every declared member.
LatchReturnsAfterCompletion ==
    /\ Cardinality({t \in Threads : pc[t] = "init"}) <= 1
    /\ initRuns <= 1
    /\ \A t \in Threads : pc[t] = "constructed" =>
         /\ register_once = "done"
         /\ \A u \in Threads : pc[u] # "init"
         /\ \A m \in DeclSet : KeysFor(storage, m) # {}

\* a thread that lost the race and blocked in call_once has returned
WitnessWaiterReturned ==
    /\ Len(decl) = 3
    /\ \E t \in Threads : pc[t] = "constructed" /\ waited[t]

\* C4: get(m) throws exactly when registerMember was never called for m;
\* otherwise it returns a value that registerMember was called with for m
\* itself, never a value of another member only.
GetReturnsRegisteredValue ==
    obs.op = "get" =>
        /\ obs.raised <=> obs.m \notin obs.regd
        /\ obs.found <=> ~obs.raised
        /\ obs.found => <<obs.m, obs.value>> \in calls

\* get(&Base::p) returned "p" while C::x, at the same offset, is registered
WitnessGetAcrossClasses ==
    /\ obs.op = "get"
    /\ obs.m = P
    /\ obs.found
    /\ obs.value = "p"
    /\ X \in obs.regd

\* C5 (as claimed): registerMember returns true exactly when it inserted an
\* entry; for a member that already has an entry it returns false and
\* leaves the table as it was.
RegisterInsertsOnlyIfAbsent ==
    obs.op = "register" =>
        /\ obs.ret <=> Len(obs.after) = Len(obs.before) + 1
        /\ KeysFor(obs.before, obs.m) # {} =>
             (~obs.ret /\ obs.after = obs.before)
        /\ KeysFor(obs.before, obs.m) = {} =>
             (obs.ret /\ Len(obs.after) = Len(obs.before) + 1)

\* C6 (as claimed): the partition never holds two entries for one member.
AtMostOneEntryPerIdentity ==
    \A m \in Members : Cardinality(KeysFor(storage, m)) <= 1

\* C7 (as claimed): get and writeField for a member without an entry raise
\* to their caller.
UnregisteredSurfaces ==
    (obs.op \in {"get", "write"} /\ ~obs.found) => obs.raised

\* the three failures of C8, told from the inputs of the call
MissingKey == MemberName(obs.m) \notin DOMAIN obs.doc
MalformedValue ==
    /\ MemberName(obs.m) \in DOMAIN obs.doc
    /\ obs.doc[MemberName(obs.m)].t # (IF obs.tgt = "int" THEN "number" ELSE "string")
InactiveArm == obs.m.ty = "variant" /\ obs.inst[obs.m].ty # obs.tgt

WrongArmLeavesDocument ==
    (obs.op = "write" /\ obs.found /\ obs.m.ty = "variant") =>
        IF obs.inst[obs.m].ty # obs.tgt
        THEN /\ obs.out.err = "bad_variant_access"
             /\ obs.out.doc = obs.doc
             /\ ~obs.out.crashed
        ELSE /\ obs.out.err = "none"
             /\ DOMAIN obs.out.doc = DOMAIN obs.doc \cup {MemberName(obs.m)}
             /\ obs.out.doc[MemberName(obs.m)] =
                  [t |-> IF obs.tgt = "int" THEN "number" ELSE "string",
                   v |-> obs.inst[obs.m].val]
             /\ \A k \in DOMAIN obs.doc \ {MemberName(obs.m)} :
                  obs.out.doc[k] = obs.doc[k]

\* the variant holds its string alternative and writeField targets int,
\* on a document without the member's key
WitnessWrongArmWrite ==
    /\ obs.op = "write"
    /\ obs.found
    /\ obs.m = V
    /\ obs.inst[V].ty = "string"
    /\ obs.tgt = "int"
    /\ "v" \notin DOMAIN obs.doc
    /\ obs.doc # EmptyDoc

\* C10 (as claimed): writeField and readField for a registered shared_ptr
\* member whose handle is empty fail with NullIndirection, without
\* dereferencing the handle and without touching the document.
NullHandleFailsLoudly ==
    (obs.op \in {"write", "read"} /\ obs.found /\ obs.m.ty = "shared_ptr"
        /\ obs.inst[obs.m] = NullPtr) =>
        /\ obs.out.err = "NullIndirection"
        /\ ~obs.out.crashed
        /\ obs.op = "write" => obs.out.doc = obs.doc

\* C11 (as claimed): with every member registered, reading the document
\* written from x into a freshly default-constructed instance gives an
\* instance equal to x in every field, whichever alternative the variant
\* of x holds and for a non-empty handle.
RoundTripReproduces ==
    (obs.op = "roundtrip" /\ obs.allreg /\ obs.inst[P] # NullPtr) =>
        /\ ~obs.out.crashed
        /\ obs.out.inst = obs.inst

\* C12 (as claimed): InitMembers is started at most once, also when it
\* fails, so it never runs again on top of what its failed run registered.
InitStartedAtMostOnce ==
    /\ initRuns <= 1
    /\ \A m \in Members : Cardinality(KeysFor(storage, m)) <= 1

\* the failures of one field that the helpers absorb: a missing key, a
\* conversion error, an inactive variant alternative
FieldFailures == {"out_of_range", "type_error", "bad_variant_access"}

\* the same sequence of helper calls with the i-th call left out
Without(order, i) == SubSeq(order, 1, i - 1) \o SubSeq(order, i + 1, Len(order))

\* C13: in a toDocument / fromDocument over fields f1..fn, a failure on fi
\* (missing key, conversion error, wrong variant arm) does not stop the
\* fields after fi from being processed, and everything but fi ends exactly
\* as in the run in which the call for fi is not made at all.
PerFieldIsolation ==
    /\ obs.op = "toDocument" =>
         \A i \in 1..Len(obs.out.errs) :
            obs.out.errs[i] \in FieldFailures =>
              /\ i < Len(obs.order) => Len(obs.out.errs) > i
              /\ ~obs.out.raised
              /\ obs.out.doc =
                   toDocument(obs.st, Without(obs.order, i), 1, StartDoc,
                              obs.inst, obs.ub).doc
              /\ Without(obs.out.errs, i) =
                   toDocument(obs.st, Without(obs.order, i), 1, StartDoc,
                              obs.inst, obs.ub).errs
    /\ obs.op = "fromDocument" =>
         \A i \in 1..Len(obs.out.errs) :
            obs.out.errs[i] \in FieldFailures =>
              /\ i < Len(obs.order) => Len(obs.out.errs) > i
              /\ ~obs.out.raised
              /\ obs.out.inst =
                   fromDocument(obs.st, Without(obs.order, i), 1,
                                StartInst(obs.inst), obs.doc, obs.ub).inst
              /\ Without(obs.out.errs, i) =
                   fromDocument(obs.st, Without(obs.order, i), 1,
                                StartInst(obs.inst), obs.doc, obs.ub).errs

\* a fromDocument whose first field fails and whose last field is read
WitnessLaterFieldRead ==
    /\ obs.op = "fromDocument"
    /\ Len(obs.out.errs) = Len(obs.order)
    /\ obs.out.errs[1] \in FieldFailures
    /\ obs.out.errs[Len(obs.order)] = "none"
    /\ obs.out.inst[obs.order[Len(obs.order)][1]]
         # obs.inst[obs.order[Len(obs.order)][1]]

\* C14 (as claimed): entries are never changed or removed: a get(m) that
\* found a value before a registerMember call finds the same value after it.
GetStable ==
    obs.op = "register" =>
        \A m \in Members :
            get(obs.before, m).found => get(obs.after, m) = get(obs.before, m)

\* the member of the member universe a key object was created from
Denotes(k) == CHOOSE m \in Members : k = Member_t(m, k.addr)

\* C15: two key objects compare equal exactly when they were created from
\* the same member of the same class; keys of different classes are unequal
\* even at the same offset, and so are keys of two members of one class.
EqualIffSameMember ==
    obs.op = "compare" =>
        /\ obs.equal <=> Denotes(obs.k1) = Denotes(obs.k2)
        /\ Denotes(obs.k1).cls # Denotes(obs.k2).cls => ~obs.equal
        /\ (Denotes(obs.k1).cls = Denotes(obs.k2).cls
              /\ Denotes(obs.k1).off # Denotes(obs.k2).off) => ~obs.equal

\* keys of two classes with the same member offset were compared
WitnessSameOffsetOtherClass ==
    /\ obs.op = "compare"
    /\ obs.k1.member = obs.k2.member
    /\ obs.k1.class_hash # obs.k2.class_hash
    /\ ~obs.equal

\* C16 (as claimed): two key objects created from the same member compare
\* equal and hash alike, whatever their addresses.
HashConsistentWithEquality ==
    (obs.op = "compare" /\ Denotes(obs.k1) = Denotes(obs.k2)) =>
        (obs.equal /\ obs.h1 = obs.h2)

\* the call of the current write resolves to a storage location: the member
\* is registered, the targeted alternative is active, the handle is not empty
WriteSucceeds ==
    /\ obs.op = "write"
    /\ obs.found
    /\ obs.m.ty = "variant" => obs.inst[obs.m].ty = obs.tgt
    /\ obs.m.ty = "shared_ptr" => obs.inst[obs.m] # NullPtr

\* C17: a successful writeField for a registered member sets the
\* document's entry under the member's registered name to the resolved
\* value (the member, the active alternative or the pointee) and leaves
\* every other key as it was; nothing is raised.
WriteSetsOnlyOwnKey ==
    WriteSucceeds =>
        /\ ~obs.out.crashed /\ ~obs.out.raised /\ obs.out.err = "none"
        /\ DOMAIN obs.out.doc = DOMAIN obs.doc \cup {MemberName(obs.m)}
        /\ obs.out.doc[MemberName(obs.m)].t =
             (IF obs.inst[obs.m].ty = "int" THEN "number" ELSE "string")
        /\ obs.out.doc[MemberName(obs.m)].v = obs.inst[obs.m].val
        /\ \A k \in DOMAIN obs.doc \ {MemberName(obs.m)} :
             obs.out.doc[k] = obs.doc[k]

\* the pointee of a non-empty handle written into a document that already
\* holds another member's key
WitnessPointeeWritten ==
    /\ WriteSucceeds
    /\ obs.m = P
    /\ DOMAIN obs.doc = {"x"}
    /\ DOMAIN obs.out.doc = {"x", "p"}

\* C18: readNested returns the fragment under the member's registered name
\* when the member is registered and the name is a key of the document, and
\* a null document otherwise, never raising; writeNested puts the fragment
\* under the member's name and keeps the other keys, or leaves the target
\* as it was when the member is not registered.
NestedHelpers ==
    /\ obs.op = "readNested" =>
         /\ ~obs.out.raised
         /\ (obs.found /\ MemberName(obs.m) \in DOMAIN obs.doc) =>
               obs.out.ret = obs.doc[MemberName(obs.m)]
         /\ (~obs.found \/ MemberName(obs.m) \notin DOMAIN obs.doc) =>
               obs.out.ret.t = "null"
    /\ obs.op = "writeNested" =>
         /\ obs.found =>
              /\ DOMAIN obs.out.doc = DOMAIN obs.doc \cup {MemberName(obs.m)}
              /\ obs.out.doc[MemberName(obs.m)] = obs.frag
              /\ \A k \in DOMAIN obs.doc \ {MemberName(obs.m)} :
                   obs.out.doc[k] = obs.doc[k]
         /\ ~obs.found => obs.out.doc = obs.doc

\* readNested of a registered member on a document that holds another key
WitnessNestedAbsentKey ==
    /\ obs.op = "readNested"
    /\ obs.found
    /\ obs.doc # EmptyDoc
    /\ MemberName(obs.m) \notin DOMAIN obs.doc
    /\ obs.out.ret.t = "null"

\* C19: under fair scheduling, with an InitMembers that returns, every
\* thread that has entered callInitMembers (running InitMembers or waiting
\* in call_once) eventually returns from it.
LatchLiveness ==
    \A t \in Threads :
        (pc[t] \in {"init", "blocked"}) ~> (pc[t] = "constructed")

\* every thread is out of callInitMembers and one of them had to wait
WitnessAllOutOneWaited ==
    /\ \A t \in Threads : pc[t] = "constructed"
    /\ \E t \in Threads : waited[t]
    /\ register_once = "done"
====
